---- MODULE Spec2Model ----
(***************************************************************************)
(* WebRTC signaling relay (src/server.py).                                 *)
(*                                                                         *)
(* One coroutine websocket_endpoint runs per accepted connection on one    *)
(* asyncio event loop.  All coroutines share the module-level STATE dict   *)
(* (one broadcaster slot, one set of viewers).  A coroutine can be         *)
(* suspended only at an await: receive_text (line 33) and every send_text. *)
(* A branch that ends with a single send is one step; the two for-loops    *)
(* that await a send per element (lines 47-51 and 102-103) are one step    *)
(* per iteration, so that other coroutines may run between iterations.     *)
(*                                                                         *)
(* A connection is a number in Conns; None is the empty broadcaster slot.  *)
(*                                                                         *)
(* Spec is the program.  SpecFrames and SpecAnnounced are the same program *)
(* with one history variable switched on each (last, announced), for the   *)
(* properties that speak of what happened before the current state.        *)
(***************************************************************************)
EXTENDS Integers, Sequences, FiniteSets, TLC

\* ---- bounds -------------------------------------------------------------
NumConns == 3       \* accepted connections
MaxMsgs == 4        \* inbound messages handled over all connections

\* ---- program constants --------------------------------------------------
None == 0                             \* STATE["broadcaster"] = None
IdBase == 100                         \* id(x): an address, distinct per live object

Conns == 1..NumConns
id(x) == IdBase + x                   \* id(websocket); id(None) = IdBase
NoSuchId == IdBase + NumConns + 1     \* a target_id that names no connection
TargetIds == {id(c) : c \in Conns} \cup {NoSuchId}
NoId == None                          \* outbound message without an id field

\* how a coroutine has ended: it returned, or it raised.  SendError stands
\* for whatever send_text raised on a connection whose transport has ended.
Raised == {"JSONDecodeError", "KeyError", "RuntimeError", "SendError"}
Exited == {"done"} \cup Raised

VARIABLES
    broadcaster,   \* STATE["broadcaster"]: a connection or None
    viewers,       \* STATE["viewers"]: set of connections
    client_type,   \* per handler: local client_type, "none" | "broadcaster" | "viewer"
    pc,            \* per handler: "recv" | "fan_reg" | "fan_disc" | "done" | the exception raised
    transport,     \* per connection: "open" | "closed"
    iter,          \* per handler: the set iterator of its for-loop over STATE["viewers"]
    sent,          \* the message the last step delivered, with its recipient (at most one)
    cleanup,       \* per handler: number of entries into the except clause
    nmsgs,         \* inbound messages handled so far
    last,          \* history: type of the frame the last step handled, "" when it handled none
    announced      \* history: per connection, the ids it has been sent in a new_viewer

vars == <<broadcaster, viewers, client_type, pc, transport, iter, sent, cleanup, nmsgs,
          last, announced>>

\* ---- outbound messages --------------------------------------------------
Msg(t, i) == [type |-> t, id |-> i]
new_viewer(v) == Msg("new_viewer", id(v))
error_msg == Msg("error", NoId)
broadcaster_disconnected == Msg("broadcaster_disconnected", NoId)
viewer_disconnected(v) == Msg("viewer_disconnected", id(v))
offer_msg(b) == Msg("offer", id(b))
answer_msg(v) == Msg("answer", id(v))
candidate_to_broadcaster(v) == Msg("candidate", id(v))
candidate_to_viewer == Msg("candidate", NoId)

\* send_text(m) on connection r returned: m is on its way to r's client
Deliver(r, m) == <<[to |-> r, msg |-> m]>>
Nothing == <<>>

\* A set iterator: the size of the set when iter() was called, the set as it
\* was then, and the elements yielded so far.
NoIter == [size |-> 0, start |-> {}, visited |-> {}]
NewIter(V, first) == [size |-> Cardinality(V), start |-> V, visited |-> first]

\* STATE["viewers"].clear() for .discard(websocket)
discard_all(V, c) == {}

\* STATE["viewers"].add(websocket) (line 54) and .discard(websocket) (line
\* 105), as the values the set has afterwards; neither raises
add(V, c) == V \cup {c}
discard(V, c) == V \ {c}

\* find the viewer whose id equals target_id (lines 73-74, 92-93)
Matching(target_id) == {v \in viewers : id(v) = target_id}

\* ---- history -------------------------------------------------------------
\* last and announced record what has happened; no branch reads them.  A
\* behaviour that starts with one of them untracked leaves it untracked.
FramesUntracked == "untracked"
AnnouncedUntracked == <<>>

\* the ids of the new_viewer messages in S that go to connection c
NewViewerIds(S, c) ==
    {S[i].msg.id : i \in {j \in 1..Len(S) : S[j].to = c /\ S[j].msg.type = "new_viewer"}}

\* the step's awaited send_text calls that returned are S
Sends(S) ==
    /\ sent' = S
    /\ announced' = IF announced = AnnouncedUntracked
                    THEN announced
                    ELSE [c \in Conns |-> announced[c] \cup NewViewerIds(S, c)]

\* the step handled a frame of type t ("" for a step that handled none)
Handles(t) == last' = IF last = FramesUntracked THEN last ELSE t

\* the state after construction, with the history variables as given
Start(l, a) ==
    /\ broadcaster = None
    /\ viewers = {}
    /\ client_type = [c \in Conns |-> "none"]
    /\ pc = [c \in Conns |-> "recv"]
    /\ transport = [c \in Conns |-> "open"]
    /\ iter = [c \in Conns |-> NoIter]
    /\ sent = Nothing
    /\ cleanup = [c \in Conns |-> 0]
    /\ nmsgs = 0
    /\ last = l
    /\ announced = a

Init == Start(FramesUntracked, AnnouncedUntracked)
InitFrames == Start("", AnnouncedUntracked)
InitAnnounced == Start(FramesUntracked, [c \in Conns |-> {}])

\* ---- how a handler ends -------------------------------------------------
\* The coroutine returns or raises: the server closes the connection.
Exit(c, how) ==
    /\ pc' = [pc EXCEPT ![c] = how]
    /\ transport' = [transport EXCEPT ![c] = "closed"]
    /\ iter' = [iter EXCEPT ![c] = NoIter]

\* An exception exc that is not WebSocketDisconnect leaves the try statement
\* without running the except clause.  ct, B, V are the values the branch has
\* given client_type, STATE["broadcaster"], STATE["viewers"] so far.
Propagate(c, exc, ct, B, V) ==
    /\ Exit(c, exc)
    /\ client_type' = [client_type EXCEPT ![c] = ct]
    /\ broadcaster' = B
    /\ viewers' = V
    /\ Sends(Nothing) /\ UNCHANGED cleanup

\* except WebSocketDisconnect (lines 98-111), up to its first await.
Except(c, ct, B, V) ==
    /\ cleanup' = [cleanup EXCEPT ![c] = @ + 1]
    /\ client_type' = [client_type EXCEPT ![c] = ct]
    /\ IF ct = "broadcaster"
       THEN /\ broadcaster' = None
            /\ viewers' = V
            /\ IF V = {}
               THEN Exit(c, "done") /\ Sends(Nothing)
               ELSE \E v \in V :
                      IF transport[v] = "open"
                      THEN /\ Sends(Deliver(v, broadcaster_disconnected))
                           /\ iter' = [iter EXCEPT ![c] = NewIter(V, {v})]
                           /\ pc' = [pc EXCEPT ![c] = "fan_disc"]
                           /\ transport' = transport
                      ELSE Exit(c, "SendError") /\ Sends(Nothing)
       ELSE IF ct = "viewer"
       THEN /\ viewers' = discard(V, c)
            /\ broadcaster' = B
            /\ IF B = None
               THEN Exit(c, "done") /\ Sends(Nothing)
               ELSE IF transport[B] = "open"
               THEN Exit(c, "done") /\ Sends(Deliver(B, viewer_disconnected(c)))
               ELSE Exit(c, "SendError") /\ Sends(Nothing)
       ELSE /\ Exit(c, "done")
            /\ broadcaster' = B
            /\ viewers' = V
            /\ Sends(Nothing)

\* await r.send_text(m) inside the try block, as the last statement of a
\* branch.  A send on a connection whose transport has ended raises; which
\* exception depends on the server stack: WebSocketDisconnect or another one.
TrySend(c, r, m, ct, B, V) ==
    IF transport[r] = "open"
    THEN /\ Sends(Deliver(r, m))
         /\ client_type' = [client_type EXCEPT ![c] = ct]
         /\ broadcaster' = B
         /\ viewers' = V
         /\ UNCHANGED <<pc, transport, iter, cleanup>>
    ELSE \/ Except(c, ct, B, V)
         \/ Propagate(c, "SendError", ct, B, V)

\* The branch sends nothing and the loop goes back to receive_text.
NoSend(c) ==
    Sends(Nothing) /\ UNCHANGED <<broadcaster, viewers, client_type, pc, transport, iter, cleanup>>

\* a step of a handler that is not at receive_text, or of the client
NoFrame == nmsgs' = nmsgs /\ Handles("")

\* data = await websocket.receive_text() returned a text frame of this type
\* (line 33)
Receives(c, type) ==
    /\ pc[c] = "recv"
    /\ transport[c] = "open"
    /\ nmsgs < MaxMsgs
    /\ nmsgs' = nmsgs + 1
    /\ Handles(type)

\* ---- the client side ----------------------------------------------------
\* The peer closes the connection or the transport fails; the handler learns
\* of it at its next receive_text.
ClientClose(c) ==
    /\ transport[c] = "open"
    /\ pc[c] \notin Exited
    /\ transport' = [transport EXCEPT ![c] = "closed"]
    /\ Sends(Nothing) /\ UNCHANGED <<broadcaster, viewers, client_type, pc, iter, cleanup>>
    /\ NoFrame

\* ---- websocket_endpoint, one action per branch --------------------------
\* json.loads(data) raises JSONDecodeError (line 34), or the payload is JSON
\* but no object and message.get raises AttributeError (line 35).
malformed(c) ==
    /\ Receives(c, "malformed")
    /\ Propagate(c, "JSONDecodeError", client_type[c], broadcaster, viewers)

\* register_broadcaster with the loop's send on the viewer instead of on the
\* registering connection (viewer.send_text for websocket.send_text)
register_broadcaster_sends_to_viewer(c) ==
    /\ Receives(c, "register_broadcaster")
    /\ broadcaster' = c
    /\ client_type' = [client_type EXCEPT ![c] = "broadcaster"]
    /\ viewers' = viewers
    /\ IF viewers = {}
       THEN Sends(Nothing) /\ UNCHANGED <<pc, iter>>
       ELSE \E v \in viewers :
              /\ Sends(Deliver(v, new_viewer(v)))
              /\ iter' = [iter EXCEPT ![c] = NewIter(viewers, {v})]
              /\ pc' = [pc EXCEPT ![c] = "fan_reg"]
    /\ UNCHANGED <<transport, cleanup>>

\* register_broadcaster with the notification that the comment of line 39
\* leaves open: the connection that held the slot is told it has been replaced
register_broadcaster_notifies_old(c) ==
    /\ Receives(c, "register_broadcaster")
    /\ broadcaster' = c
    /\ client_type' = [client_type EXCEPT ![c] = "broadcaster"]
    /\ viewers' = viewers
    /\ LET note == IF broadcaster \notin {None, c} /\ transport[broadcaster] = "open"
                   THEN Deliver(broadcaster, broadcaster_disconnected)
                   ELSE Nothing
       IN  IF viewers = {}
           THEN Sends(note) /\ UNCHANGED <<pc, iter>>
           ELSE \E v \in viewers :
                  /\ Sends(note \o Deliver(c, new_viewer(v)))
                  /\ iter' = [iter EXCEPT ![c] = NewIter(viewers, {v})]
                  /\ pc' = [pc EXCEPT ![c] = "fan_reg"]
    /\ UNCHANGED <<transport, cleanup>>

\* lines 37-51, up to the first await of the for-loop
register_broadcaster(c) ==
    /\ Receives(c, "register_broadcaster")
    /\ broadcaster' = c
    /\ client_type' = [client_type EXCEPT ![c] = "broadcaster"]
    /\ viewers' = viewers
    /\ IF viewers = {}
       THEN Sends(Nothing) /\ UNCHANGED <<pc, iter>>
       ELSE \E v \in viewers :
              /\ Sends(Deliver(c, new_viewer(v)))
              /\ iter' = [iter EXCEPT ![c] = NewIter(viewers, {v})]
              /\ pc' = [pc EXCEPT ![c] = "fan_reg"]
    /\ UNCHANGED <<transport, cleanup>>

\* lines 47-51: the loop resumes after an awaited send; next() on the set
\* iterator raises RuntimeError when the set has changed size.
fan_reg_step(c) ==
    /\ pc[c] = "fan_reg"
    /\ NoFrame
    /\ IF Cardinality(viewers) # iter[c].size
       THEN Propagate(c, "RuntimeError", client_type[c], broadcaster, viewers)
       ELSE IF viewers \ iter[c].visited = {}
       THEN /\ pc' = [pc EXCEPT ![c] = "recv"]
            /\ iter' = [iter EXCEPT ![c] = NoIter]
            /\ Sends(Nothing) /\ UNCHANGED <<broadcaster, viewers, client_type, transport, cleanup>>
       ELSE \E v \in viewers \ iter[c].visited :
              IF transport[c] = "open"
              THEN /\ Sends(Deliver(c, new_viewer(v)))
                   /\ iter' = [iter EXCEPT ![c].visited = @ \cup {v}]
                   /\ UNCHANGED <<broadcaster, viewers, client_type, pc, transport, cleanup>>
              ELSE \/ Except(c, client_type[c], broadcaster, viewers)
                   \/ Propagate(c, "SendError", client_type[c], broadcaster, viewers)

\* register_viewer with the announcement sent back on the registering
\* connection instead of on the broadcaster's
register_viewer_replies_to_sender(c) ==
    /\ Receives(c, "register_viewer")
    /\ IF broadcaster # None
       THEN TrySend(c, c, new_viewer(c), "viewer", broadcaster, add(viewers, c))
       ELSE TrySend(c, c, error_msg, "viewer", broadcaster, add(viewers, c))

\* lines 53-68
register_viewer(c) ==
    /\ Receives(c, "register_viewer")
    /\ IF broadcaster # None
       THEN TrySend(c, broadcaster, new_viewer(c), "viewer", broadcaster, add(viewers, c))
       ELSE TrySend(c, c, error_msg, "viewer", broadcaster, add(viewers, c))

\* lines 70-77; message["sdp"] raises KeyError when the field is missing
offer(c, target_id, has_sdp) ==
    /\ Receives(c, "offer")
    /\ IF Matching(target_id) = {}
       THEN NoSend(c)
       ELSE \E v \in Matching(target_id) :
              IF has_sdp
              THEN TrySend(c, v, offer_msg(broadcaster), client_type[c], broadcaster, viewers)
              ELSE Propagate(c, "KeyError", client_type[c], broadcaster, viewers)

\* lines 79-83
answer(c, has_sdp) ==
    /\ Receives(c, "answer")
    /\ IF broadcaster = None
       THEN NoSend(c)
       ELSE IF has_sdp
       THEN TrySend(c, broadcaster, answer_msg(c), client_type[c], broadcaster, viewers)
       ELSE Propagate(c, "KeyError", client_type[c], broadcaster, viewers)

\* candidate with the viewer looked up by subscript instead of by the loop of
\* lines 91-96: a target_id that names no registered viewer raises KeyError
candidate_requires_match(c, target, target_id, has_candidate) ==
    /\ Receives(c, "candidate")
    /\ IF target = "broadcaster" /\ broadcaster # None
       THEN IF has_candidate
            THEN TrySend(c, broadcaster, candidate_to_broadcaster(c), client_type[c], broadcaster, viewers)
            ELSE Propagate(c, "KeyError", client_type[c], broadcaster, viewers)
       ELSE IF target = "viewer" /\ Matching(target_id) # {}
       THEN \E v \in Matching(target_id) :
              IF has_candidate
              THEN TrySend(c, v, candidate_to_viewer, client_type[c], broadcaster, viewers)
              ELSE Propagate(c, "KeyError", client_type[c], broadcaster, viewers)
       ELSE IF target = "viewer"
       THEN Propagate(c, "KeyError", client_type[c], broadcaster, viewers)
       ELSE NoSend(c)

\* lines 85-96
candidate(c, target, target_id, has_candidate) ==
    /\ Receives(c, "candidate")
    /\ IF target = "broadcaster" /\ broadcaster # None
       THEN IF has_candidate
            THEN TrySend(c, broadcaster, candidate_to_broadcaster(c), client_type[c], broadcaster, viewers)
            ELSE Propagate(c, "KeyError", client_type[c], broadcaster, viewers)
       ELSE IF target = "viewer" /\ Matching(target_id) # {}
       THEN \E v \in Matching(target_id) :
              IF has_candidate
              THEN TrySend(c, v, candidate_to_viewer, client_type[c], broadcaster, viewers)
              ELSE Propagate(c, "KeyError", client_type[c], broadcaster, viewers)
       ELSE NoSend(c)

\* a type no branch matches: the if/elif chain falls through
unknown_type(c) ==
    /\ Receives(c, "unknown")
    /\ NoSend(c)

\* receive_text raises WebSocketDisconnect (line 33 to line 98)
disconnect(c) ==
    /\ pc[c] = "recv"
    /\ transport[c] = "closed"
    /\ NoFrame
    /\ Except(c, client_type[c], broadcaster, viewers)

\* lines 102-103: the loop resumes after an awaited send, inside the except
\* clause, so whatever is raised here leaves the coroutine.
fan_disc_step(c) ==
    /\ pc[c] = "fan_disc"
    /\ NoFrame
    /\ UNCHANGED <<broadcaster, viewers, client_type, cleanup>>
    /\ IF Cardinality(viewers) # iter[c].size
       THEN Exit(c, "RuntimeError") /\ Sends(Nothing)
       ELSE IF viewers \ iter[c].visited = {}
       THEN Exit(c, "done") /\ Sends(Nothing)
       ELSE \E v \in viewers \ iter[c].visited :
              IF transport[v] = "open"
              THEN /\ Sends(Deliver(v, broadcaster_disconnected))
                   /\ iter' = [iter EXCEPT ![c].visited = @ \cup {v}]
                   /\ UNCHANGED <<pc, transport>>
              ELSE Exit(c, "SendError") /\ Sends(Nothing)

Targets == {"broadcaster", "viewer"}

Next ==
    \/ \E c \in Conns : register_broadcaster(c)
    \/ \E c \in Conns : fan_reg_step(c)
    \/ \E c \in Conns : register_viewer(c)
    \/ \E c \in Conns, t \in TargetIds, s \in BOOLEAN : offer(c, t, s)
    \/ \E c \in Conns, s \in BOOLEAN : answer(c, s)
    \/ \E c \in Conns, s \in BOOLEAN : candidate(c, "broadcaster", NoSuchId, s)
    \/ \E c \in Conns, t \in TargetIds, s \in BOOLEAN : candidate(c, "viewer", t, s)
    \/ \E c \in Conns : unknown_type(c)
    \/ \E c \in Conns : malformed(c)
    \/ \E c \in Conns : disconnect(c)
    \/ \E c \in Conns : fan_disc_step(c)
    \/ \E c \in Conns : ClientClose(c)

Spec == Init /\ [][Next]_vars

\* the same program, observed with one of the history variables
SpecFrames == InitFrames /\ [][Next]_vars
SpecAnnounced == InitAnnounced /\ [][Next]_vars

\* ---- properties ---------------------------------------------------------
\* the connection's handler leaves websocket_endpoint in this step
Leaves(c) == pc[c] \notin Exited /\ pc'[c] \in Exited

\* the viewers a terminating broadcaster has to tell, and those it has told
Audience(c) == IF pc[c] = "fan_disc" THEN iter[c].start ELSE viewers
Notified(c) == IF pc[c] = "fan_disc" THEN iter[c].visited ELSE {}

\* C1: no connection is at once the broadcaster and a member of the viewer set.
C1_NeverBothRoles ==
    \A c \in Conns : ~(broadcaster = c /\ c \in viewers)

\* C2: when a handler whose role is broadcaster runs its cleanup while the
\* slot refers to a different connection, the slot is left as it is.
C2_SupersededKeepsSlot ==
    [][\A c \in Conns :
         (client_type[c] = "broadcaster" /\ cleanup'[c] = cleanup[c] + 1
            /\ broadcaster # None /\ broadcaster # c)
         => broadcaster' = broadcaster]_vars

\* C3: whatever ends the receive loop, the handler has run its cleanup exactly
\* once when it has returned.
C3_CleanupExactlyOnce ==
    \A c \in Conns : cleanup[c] <= 1 /\ (pc[c] \in Exited => cleanup[c] = 1)

\* C4: a malformed payload is discarded: the connection stays connected, its
\* role and the registry are unchanged, and the handler receives again.
C4_MalformedDiscarded ==
    [][\A c \in Conns :
         malformed(c) => /\ pc'[c] = "recv"
                         /\ transport'[c] = "open"
                         /\ UNCHANGED <<broadcaster, viewers, client_type>>]_vars

\* C5: a well-formed message whose forwarding send fails leaves the sending
\* handler connected and receiving, and the failure changes nothing in the
\* registry (a registration keeps its own effect).
C5_SendFailureSwallowed ==
    [][\A c \in Conns :
         /\ ( \/ answer(c, TRUE)
              \/ \E t \in TargetIds : offer(c, t, TRUE)
              \/ \E tg \in Targets, t \in TargetIds : candidate(c, tg, t, TRUE) )
            => /\ pc'[c] = "recv"
               /\ transport'[c] = "open"
               /\ UNCHANGED <<broadcaster, viewers>>
         /\ register_viewer(c)
            => /\ pc'[c] = "recv"
               /\ transport'[c] = "open"
               /\ broadcaster' = broadcaster
               /\ viewers' = viewers \cup {c}]_vars

\* C6: when the registered broadcaster's handler terminates, the slot is empty
\* afterward, every registered viewer that can still receive has been sent
\* broadcaster_disconnected once, and a later register_broadcaster from another
\* connection takes the slot.
C6_BroadcasterTermination ==
    [][\A c \in Conns :
         /\ (Leaves(c) /\ (broadcaster = c \/ pc[c] = "fan_disc"))
            => /\ pc'[c] = "done"
               /\ broadcaster' # c
               /\ \A v \in Audience(c) \ {c} :
                    transport[v] = "open" => v \in Notified(c)
         /\ (broadcaster = c /\ pc[c] = "recv" /\ pc'[c] = "fan_disc")
            => broadcaster' = None
         /\ register_broadcaster(c) => broadcaster' = c]_vars

\* C7: when a handler whose role is viewer terminates, the connection is not
\* in the viewer set afterward and a registered broadcaster that can receive
\* is sent exactly one viewer_disconnected with the viewer's id.
C7_ViewerTermination ==
    [][\A c \in Conns :
         (client_type[c] = "viewer" /\ Leaves(c))
         => /\ c \notin viewers'
            /\ (broadcaster \in Conns \ {c} /\ transport[broadcaster] = "open")
               => sent' = Deliver(broadcaster, viewer_disconnected(c))]_vars

\* C8: register_viewer while a broadcaster is registered: the broadcaster (when
\* its transport can take a message) is sent exactly one new_viewer carrying the
\* viewer's id, and nothing else is sent; in particular no error to the viewer.
C8_ViewerAnnounced ==
    [][\A c \in Conns :
         (register_viewer(c) /\ broadcaster # None)
         => sent' = IF transport[broadcaster] = "open"
                    THEN Deliver(broadcaster, new_viewer(c))
                    ELSE Nothing]_vars

\* two messages so far: b's register_broadcaster, then v's register_viewer
C8_Witness ==
    \E b \in Conns : \E v \in Conns \ {b} :
        /\ nmsgs = 2
        /\ broadcaster = b /\ client_type[b] = "broadcaster" /\ pc[b] = "recv"
        /\ v \in viewers /\ client_type[v] = "viewer" /\ pc[v] = "recv"
        /\ sent = Deliver(b, new_viewer(v))

\* C9: register_viewer while no broadcaster is registered: the viewer is sent
\* exactly one error.  A register_broadcaster, and every step of its
\* fan-out, sends only to the registering connection, so nothing reaches a
\* viewer registered earlier.
C9_ErrorThenNoRetry ==
    [][\A c \in Conns :
         /\ (register_viewer(c) /\ broadcaster = None)
            => sent' = Deliver(c, error_msg)
         /\ (register_broadcaster(c) \/ (fan_reg_step(c) /\ pc'[c] \in {"recv", "fan_reg"}))
            => \A i \in 1..Len(sent') :
                  sent'[i].to = c /\ sent'[i].msg.type = "new_viewer"]_vars

\* two messages so far: v's register_viewer, answered with an error as the
\* slot was empty, then b's register_broadcaster, whose fan-out is under way
C9_Witness ==
    \E b \in Conns : \E v \in Conns \ {b} :
        /\ nmsgs = 2
        /\ broadcaster = b /\ pc[b] = "fan_reg"
        /\ v \in viewers /\ client_type[v] = "viewer" /\ pc[v] = "recv"
        /\ cleanup[v] = 0 /\ client_type[b] = "broadcaster"
        /\ sent = Deliver(b, new_viewer(v))

\* C10: register_broadcaster makes the connection the broadcaster, and when
\* its fan-out is over the connection (its transport still open) has been
\* sent one new_viewer for each member the viewer set had at registration and
\* for no one else, and goes on receiving.
C10_FanOutComplete ==
    [][\A c \in Conns :
         /\ register_broadcaster(c) => broadcaster' = c
         /\ (pc[c] = "fan_reg" /\ pc'[c] # "fan_reg" /\ transport[c] = "open")
            => /\ pc'[c] = "recv"
               /\ iter[c].visited = iter[c].start]_vars

\* C11: an offer whose target_id is the id of a registered viewer B is
\* delivered to B (when B's transport can take a message), once, and the step
\* delivers nothing to any other registered viewer; an offer whose target_id
\* is the id of no registered viewer delivers nothing to anyone.
C11_OfferOnlyToTarget ==
    [][\A c \in Conns, t \in TargetIds :
         offer(c, t, TRUE)
         => IF \A v \in viewers : id(v) # t
            THEN sent' = Nothing
            ELSE \A B \in viewers :
                   id(B) = t
                   => /\ transport[B] = "open"
                         => /\ Len(sent') = 1
                            /\ sent'[1].to = B
                            /\ sent'[1].msg.type = "offer"
                      /\ \A i \in 1..Len(sent') :
                           sent'[i].to \in viewers => sent'[i].to = B]_vars

\* C12: a candidate with target "viewer" whose target_id is the id of no
\* registered viewer sends nothing and leaves the registry and the sender's
\* role as they were; the sender stays connected and receives again.
C12_UnmatchedCandidateDropped ==
    [][\A c \in Conns, t \in TargetIds, s \in BOOLEAN :
         (candidate(c, "viewer", t, s) /\ \A v \in viewers : id(v) # t)
         => /\ sent' = Nothing
            /\ UNCHANGED <<broadcaster, viewers, client_type>>
            /\ pc'[c] = "recv"
            /\ transport'[c] = "open"]_vars

\* three messages so far: b's register_broadcaster, v's register_viewer, then
\* a candidate that sent nothing and raised nothing.  With b and v able to
\* receive, a candidate for the broadcaster or for v's id would have sent.
C12_Witness ==
    \E b \in Conns : \E v \in Conns \ {b} :
        /\ nmsgs = 3
        /\ last = "candidate"
        /\ sent = Nothing
        /\ broadcaster = b /\ viewers = {v}
        /\ \A c \in Conns : pc[c] = "recv" /\ transport[c] = "open"

\* C13: once a handler has a role, no later step changes it, whatever
\* registration messages the connection sends.
C13_RoleNeverChanges ==
    [][\A c \in Conns :
         client_type[c] # "none" => client_type'[c] = client_type[c]]_vars

\* C14: while a handler is inside the fan-out loop of register_broadcaster or
\* of the broadcaster's cleanup, no step of another handler adds or removes a
\* viewer or changes the broadcaster slot.  (A step that leaves c's pc and
\* loop iterator as they are is not a step of c's handler.)
C14_FanOutSeesOneRegistry ==
    [][\A c \in Conns :
         (pc[c] \in {"fan_reg", "fan_disc"} /\ pc'[c] = pc[c] /\ iter'[c] = iter[c])
         => UNCHANGED <<broadcaster, viewers>>]_vars

\* C15: sends on one connection are serialized.  A handler at pc = "fan_reg"
\* is suspended inside the send_text of lines 48-51, a send on its own
\* connection, so no step of another handler sends on that connection.
C15_SendsSerialized ==
    [][\A c \in Conns :
         (pc[c] = "fan_reg" /\ pc'[c] = pc[c] /\ iter'[c] = iter[c])
         => \A i \in 1..Len(sent') : sent'[i].to # c]_vars

\* the message is one the router addresses to the broadcaster slot
ToSlot(m) ==
    \/ m.type \in {"answer", "viewer_disconnected"}
    \/ m.type = "candidate" /\ m.id # NoId

\* C16: a register_broadcaster from connection c while another connection
\* holds the slot puts c in the slot; the step sends the superseded connection
\* nothing and leaves its handler and its transport as they are.  In every
\* step an answer, a candidate for the broadcaster or a viewer_disconnected
\* goes to the connection in the slot, and so does a new_viewer, except the
\* ones a registering connection sends itself in its own fan-out.
C16_Supersession ==
    [][/\ \A c \in Conns :
            (register_broadcaster(c) /\ broadcaster \notin {None, c})
            => /\ broadcaster' = c
               /\ pc'[broadcaster] = pc[broadcaster]
               /\ transport'[broadcaster] = transport[broadcaster]
               /\ \A i \in 1..Len(sent') : sent'[i].to # broadcaster
       /\ \A i \in 1..Len(sent') :
            /\ ToSlot(sent'[i].msg) => sent'[i].to = broadcaster
            /\ sent'[i].msg.type = "new_viewer"
               => \/ sent'[i].to = broadcaster
                  \/ sent'[i].to = broadcaster'
                  \/ pc[sent'[i].to] = "fan_reg"]_vars

\* three messages so far: a's register_broadcaster, b's register_broadcaster,
\* then an answer from v, which goes to b; a's handler is still receiving
C16_Witness ==
    \E a \in Conns : \E b \in Conns \ {a} : \E v \in Conns \ {a, b} :
        /\ nmsgs = 3
        /\ broadcaster = b
        /\ client_type[a] = "broadcaster" /\ client_type[b] = "broadcaster"
        /\ pc[a] = "recv" /\ transport[a] = "open"
        /\ sent = Deliver(b, answer_msg(v))

\* C17: a register_viewer from a connection that is already in the viewer set
\* leaves the set as it is (unless the handler's cleanup runs in the same
\* step); the cleanup of a viewer leaves the set without the connection and
\* otherwise unchanged and raises nothing of its own, and discarding the
\* connection once more changes nothing.
C17_ViewerSetIdempotent ==
    [][\A c \in Conns :
         /\ (register_viewer(c) /\ c \in viewers /\ cleanup'[c] = cleanup[c])
            => viewers' = viewers
         /\ (client_type'[c] = "viewer" /\ cleanup'[c] = cleanup[c] + 1)
            => /\ c \notin viewers'
               /\ viewers' = viewers \ {c}
               /\ pc'[c] \in {"done", "SendError"}
               /\ discard(viewers', c) = viewers']_vars

\* three messages so far: v's register_viewer, b's register_broadcaster, whose
\* loop has v in its snapshot and is not over, and last v's register_viewer
\* again, which sent b a new_viewer; the set is still {v}
C17_Witness ==
    \E b \in Conns : \E v \in Conns \ {b} :
        /\ nmsgs = 3
        /\ last = "register_viewer"
        /\ sent = Deliver(b, new_viewer(v))
        /\ pc[b] = "fan_reg" /\ iter[b].start = {v}
        /\ viewers = {v} /\ cleanup[v] = 0 /\ pc[v] = "recv"

\* C18: an offer that has just been delivered carries as broadcaster_id the id
\* of the connection that is registered as broadcaster, so never an id that
\* belongs to no registered broadcaster.  (A step that delivers an offer
\* leaves the slot as it was.)
C18_OfferNamesBroadcaster ==
    \A i \in 1..Len(sent) :
        sent[i].msg.type = "offer"
        => broadcaster \in Conns /\ sent[i].msg.id = id(broadcaster)

\* C19: a connection whose handler has returned or raised is referenced
\* neither by the broadcaster slot nor by the viewer set.
C19_ClosedNotReferenced ==
    \A c \in Conns :
        pc[c] \in Exited => broadcaster # c /\ c \notin viewers

\* C20: an answer, a candidate with a viewer_id or a viewer_disconnected that
\* has just been delivered to a connection carries a viewer id that the same
\* connection has been sent in a new_viewer before.
C20_AnnouncedFirst ==
    \A i \in 1..Len(sent) :
        ToSlot(sent[i].msg) => sent[i].msg.id \in announced[sent[i].to]

====
